---- MODULE Spec2Model ----
(***************************************************************************)
(* Model of domainchecks/models.py: the two tables DomainCheck and         *)
(* CheckResult and the queryset methods active(), stale() and status() of  *)
(* DomainCheckQuerySet, with the SQL they compile to (one LEFT OUTER JOIN  *)
(* on checkresult, GROUP BY the check, conditional COUNT and MAX, and a    *)
(* searched CASE) evaluated row by row.                                    *)
(*                                                                         *)
(* Time is counted in whole units from 0; a timedelta is a number of the   *)
(* same units.  The table of results is a bag of rows: the primary key of  *)
(* a CheckResult is read by no query, so rows that agree on every other    *)
(* column are interchangeable.  response_time and response_body are read   *)
(* by no query either and are left out of the row.                         *)
(***************************************************************************)
EXTENDS Integers, Sequences, FiniteSets, Bags, TLC

VARIABLES checks, results, clock, response

vars == <<checks, results, clock, response>>

(***************************************************************************)
(* Bounds of the model and the input sets of the environments.             *)
(***************************************************************************)
MaxTime == 1
MaxCutoff == 1
MaxResults == 2
MaxDeepResults == 12

CheckIds == {1, 2}
Times == 0..MaxTime
Cutoffs == 0..MaxCutoff

\* SQL NULL in a nullable integer column or in an aggregate over no value.
\* Every stored status code and every timestamp is >= 0.
NULL == -1

StatusCodes == {NULL, 199, 200, 299, 300}
DeepStatusCodes == {NULL, 200}
DeepTimes == {0, 1}

Domains == {"example.com", "a.io"}
Paths == {"/health", "health", ""}

PROTOCOL_HTTP == "http"
PROTOCOL_HTTPS == "https"
PROTOCOL_CHOICES == {PROTOCOL_HTTP, PROTOCOL_HTTPS}
METHOD_GET == "get"
METHOD_POST == "post"
METHOD_CHOICES == {METHOD_GET, METHOD_POST}

(***************************************************************************)
(* The two tables.                                                         *)
(***************************************************************************)
DomainCheck(domain, path, protocol, method, is_active) ==
    [domain |-> domain, path |-> path, protocol |-> protocol,
     method |-> method, is_active |-> is_active]

CheckResult(domain_check, checked_on, status_code) ==
    [domain_check |-> domain_check, checked_on |-> checked_on,
     status_code |-> status_code]

\* django.utils.timezone.now()
now == clock

(***************************************************************************)
(* SQL comparison of a column a with a query parameter, which is never     *)
(* NULL: a comparison of NULL is unknown, and a WHEN or a HAVING takes a   *)
(* row only when its condition is true.                                    *)
(***************************************************************************)
SqlGte(a, b) == a # NULL /\ a >= b
SqlLt(a, b) == a # NULL /\ a < b
SqlRange(a, lo, hi) == a # NULL /\ lo <= a /\ a <= hi

\* The rows of checkresult LEFT OUTER JOINed to check c: its results, or one
\* row of NULLs when it has none.
JoinRows(c) ==
    LET own == {r \in DOMAIN results : r.domain_check = c}
    IN  IF own = {}
        THEN SetToBag({CheckResult(NULL, NULL, NULL)})
        ELSE [r \in own |-> results[r]]

\* Max with the wrong aggregate: the earliest date instead of the latest.
MaxAsMin(rows) ==
    LET vals == {r.checked_on : r \in DOMAIN rows} \ {NULL}
    IN  IF vals = {} THEN NULL
        ELSE CHOOSE v \in vals : \A w \in vals : v <= w

\* Max('checkresult__checked_on'): NULL values are skipped, NULL when none is left.
Max(rows) ==
    LET vals == {r.checked_on : r \in DOMAIN rows} \ {NULL}
    IN  IF vals = {} THEN NULL
        ELSE CHOOSE v \in vals : \A w \in vals : w <= v

\* Count(expr): the number of joined rows on which expr is not NULL.
Count(rows, expr) ==
    LET hit == {r \in DOMAIN rows : expr[r] # NULL}
    IN  BagCardinality([r \in hit |-> rows[r]])

(***************************************************************************)
(* DomainCheckQuerySet                                                     *)
(***************************************************************************)
\* active(): filter(is_active=True)
active == {c \in DOMAIN checks : checks[c].is_active = TRUE}

\* The annotation last_check of stale() and of status(): the MAX runs over
\* every joined row of the check.
last_check(c) == Max(JoinRows(c))

\* stale with last_check__lte in place of last_check__lt.
stale_lte(cutoff) ==
    LET end_time == now - cutoff
    IN  {c \in DOMAIN checks :
            (last_check(c) # NULL /\ last_check(c) <= end_time)
                \/ last_check(c) = NULL}

\* stale(cutoff): HAVING last_check < end_time OR last_check IS NULL
stale(cutoff) ==
    LET end_time == now - cutoff
    IN  {c \in DOMAIN checks :
            SqlLt(last_check(c), end_time) \/ last_check(c) = NULL}

\* ping counting the answered probes only: a null status code is no ping.
ping_answered(r, start_time) ==
    SqlGte(r.checked_on, start_time) /\ r.status_code # NULL

\* ping with checked_on__gt in place of checked_on__gte.
ping_gt(r, start_time) == r.checked_on # NULL /\ r.checked_on > start_time

\* ping = Q(checkresult__checked_on__gte=start_time)
ping(r, start_time) == SqlGte(r.checked_on, start_time)

\* success = Q(checkresult__checked_on__gte=start_time,
\*             checkresult__status_code__range=(200, 299))
success(r, start_time) ==
    /\ SqlGte(r.checked_on, start_time)
    /\ SqlRange(r.status_code, 200, 299)

\* A value of the annotation success_rate: NULL, or the quotient num / den
\* kept exact (den > 0).  The column is a double; num and den are integers
\* far below 2^53, the quotient is rounded to nearest, and rounding is
\* monotone, so the double compares with 75 and 90 as num / den does.
RateNull == [isnull |-> TRUE, num |-> 0, den |-> 1]
Rate(num, den) == [isnull |-> FALSE, num |-> num, den |-> den]

\* success_rate with the division guarded to give 0 on a divisor of 0.
success_rate_zero(successes, pings) ==
    IF pings = 0 THEN Rate(0, 1) ELSE Rate(successes * 100, pings)

\* F('successes') * 100.0 / F('pings'): the quotient is NULL when the divisor
\* is 0, the value the CASE's last branch is written for.
success_rate(successes, pings) ==
    IF pings = 0 THEN RateNull ELSE Rate(successes * 100, pings)

RateGt(rate, n) == ~rate.isnull /\ rate.num > n * rate.den
RateLt(rate, n) == ~rate.isnull /\ rate.num < n * rate.den
RateRange(rate, lo, hi) ==
    ~rate.isnull /\ lo * rate.den <= rate.num /\ rate.num <= hi * rate.den

\* The value of a CASE none of whose WHENs is true, there being no default.
None == "None"

\* StatusCase with success_rate__gte=90 in its first WHEN.
StatusCaseGte(rate) ==
    IF ~rate.isnull /\ rate.num >= 90 * rate.den THEN "good"
    ELSE IF RateRange(rate, 75, 90) THEN "fair"
    ELSE IF RateLt(rate, 75) THEN "poor"
    ELSE IF rate.isnull THEN "unknown"
    ELSE None

\* The annotation status: the WHENs are tried in the order written.
StatusCase(rate) ==
    IF RateGt(rate, 90) THEN "good"
    ELSE IF RateRange(rate, 75, 90) THEN "fair"
    ELSE IF RateLt(rate, 75) THEN "poor"
    ELSE IF rate.isnull THEN "unknown"
    ELSE None

\* status(cutoff): one annotated row per check of the queryset.
status(cutoff) ==
    LET start_time == now - cutoff
        row(c) ==
            LET rows == JoinRows(c)
                \* Case(When(q, then=1)): 1 where q is true, else NULL
                case_success ==
                    [r \in DOMAIN rows |-> IF success(r, start_time) THEN 1 ELSE NULL]
                case_ping ==
                    [r \in DOMAIN rows |-> IF ping(r, start_time) THEN 1 ELSE NULL]
                successes == Count(rows, case_success)
                pings == Count(rows, case_ping)
                rate == success_rate(successes, pings)
            IN  [last_check |-> last_check(c),
                 successes |-> successes,
                 pings |-> pings,
                 success_rate |-> rate,
                 status |-> StatusCase(rate)]
    IN  [c \in DOMAIN checks |-> row(c)]

\* url joining domain and path with a "/" when the path does not start with one.
url_joined(c) ==
    LET path == checks[c].path
        sep == IF Len(path) > 0 /\ SubSeq(path, 1, 1) = "/" THEN "" ELSE "/"
    IN  checks[c].protocol \o "://" \o checks[c].domain \o sep \o path

\* DomainCheck.url
url(c) ==
    checks[c].protocol \o "://" \o checks[c].domain \o checks[c].path

(***************************************************************************)
(* The operations.  response holds what the last operation returned: the   *)
(* queryset of a query, the string of url, nothing after a write.          *)
(***************************************************************************)
NoResponse ==
    [op |-> "none", cutoff |-> 0, rows |-> <<>>, ids |-> {}, url |-> ""]

\* DomainCheck.objects.create(...): the primary key is the next integer.
CreateCheck(domain, path, protocol, method, is_active) ==
    LET id == Cardinality(DOMAIN checks) + 1
    IN  /\ id \in CheckIds
        /\ protocol \in PROTOCOL_CHOICES
        /\ method \in METHOD_CHOICES
        /\ checks' = checks @@
                (id :> DomainCheck(domain, path, protocol, method, is_active))
        /\ response' = NoResponse
        /\ UNCHANGED <<results, clock>>

\* Saving is_active on an existing check.
SetActive(c, is_active) ==
    /\ c \in DOMAIN checks
    /\ checks[c].is_active # is_active
    /\ checks' = [checks EXCEPT ![c].is_active = is_active]
    /\ response' = NoResponse
    /\ UNCHANGED <<results, clock>>

\* CheckResult.objects.create(...): the foreign key names an existing check.
SaveResult(c, checked_on, status_code) ==
    /\ c \in DOMAIN checks
    /\ results' = results (+) SetToBag({CheckResult(c, checked_on, status_code)})
    /\ response' = NoResponse
    /\ UNCHANGED <<checks, clock>>

\* Time passes.
Tick ==
    /\ clock' = clock + 1
    /\ response' = NoResponse
    /\ UNCHANGED <<checks, results>>

CallActive ==
    /\ response' = [NoResponse EXCEPT !.op = "active", !.ids = active]
    /\ UNCHANGED <<checks, results, clock>>

CallStale(cutoff) ==
    /\ response' = [NoResponse EXCEPT !.op = "stale", !.cutoff = cutoff,
                                      !.ids = stale(cutoff)]
    /\ UNCHANGED <<checks, results, clock>>

\* CallStatus deleting, as it evaluates, the results older than its window.
CallStatusPruning(cutoff) ==
    LET kept == {r \in DOMAIN results : r.checked_on >= now - cutoff}
    IN  /\ response' = [NoResponse EXCEPT !.op = "status", !.cutoff = cutoff,
                                          !.rows = status(cutoff)]
        /\ results' = [r \in kept |-> results[r]]
        /\ UNCHANGED <<checks, clock>>

CallStatus(cutoff) ==
    /\ response' = [NoResponse EXCEPT !.op = "status", !.cutoff = cutoff,
                                      !.rows = status(cutoff)]
    /\ UNCHANGED <<checks, results, clock>>

ReadUrl(c) ==
    /\ c \in DOMAIN checks
    /\ response' = [NoResponse EXCEPT !.op = "url", !.ids = {c}, !.url = url(c)]
    /\ UNCHANGED <<checks, results, clock>>

Init ==
    /\ checks = <<>>
    /\ results = EmptyBag
    /\ clock = 0
    /\ response = NoResponse

(***************************************************************************)
(* Spec: checks with the default protocol and method, results written with *)
(* any timestamp (a result may be dated before or after the clock) and any *)
(* status code around the 2xx range, every query with every cutoff.        *)
(***************************************************************************)
Next ==
    \/ \E a \in BOOLEAN :
          CreateCheck("example.com", "/health", PROTOCOL_HTTP, METHOD_GET, a)
    \/ \E c \in CheckIds, a \in BOOLEAN : SetActive(c, a)
    \/ \E c \in CheckIds, t \in Times, code \in StatusCodes :
          BagCardinality(results) < MaxResults /\ SaveResult(c, t, code)
    \/ clock < MaxTime /\ Tick
    \/ CallActive
    \/ \E cutoff \in Cutoffs : CallStale(cutoff)
    \/ \E cutoff \in Cutoffs : CallStatus(cutoff)

Spec == Init /\ [][Next]_vars

(***************************************************************************)
(* SpecDeep: many results per check.  Every result is stamped with the     *)
(* clock at the time it is written and is a 200 or a transport failure.    *)
(***************************************************************************)
NextDeep ==
    \/ CreateCheck("example.com", "/health", PROTOCOL_HTTP, METHOD_GET, TRUE)
    \/ \E c \in CheckIds, code \in DeepStatusCodes :
          BagCardinality(results) < MaxDeepResults /\ SaveResult(c, now, code)
    \/ clock + 1 \in DeepTimes /\ Tick
    \/ \E cutoff \in Cutoffs : CallStatus(cutoff)

SpecDeep == Init /\ [][NextDeep]_vars

(***************************************************************************)
(* SpecConfig: the check definitions, with every choice of domain, path,   *)
(* protocol and method; no result is written.                              *)
(***************************************************************************)
NextConfig ==
    \/ \E d \in Domains, p \in Paths, pr \in PROTOCOL_CHOICES,
          m \in METHOD_CHOICES, a \in BOOLEAN : CreateCheck(d, p, pr, m, a)
    \/ \E c \in CheckIds, a \in BOOLEAN : SetActive(c, a)
    \/ \E c \in CheckIds : ReadUrl(c)
    \/ CallActive

SpecConfig == Init /\ [][NextConfig]_vars

(***************************************************************************)
(* The properties.  The stored results are counted here row by row from    *)
(* the table itself, not through the join and the aggregates above.        *)
(***************************************************************************)
RECURSIVE SumCopies(_)
SumCopies(S) ==
    IF S = {} THEN 0
    ELSE LET r == CHOOSE x \in S : TRUE
         IN  results[r] + SumCopies(S \ {r})

ResultsOf(c) == {r \in DOMAIN results : r.domain_check = c}

IsSuccessCode(code) == code # NULL /\ code \in 200..299

Labels == {"good", "fair", "poor", "unknown"}

SameRate(a, b) ==
    \/ a.isnull /\ b.isnull
    \/ ~a.isnull /\ ~b.isnull /\ a.num * b.den = b.num * a.den

\* C1: status() gives every check exactly one of the four labels, decided by
\* success_rate alone: good when the rate is above 90, fair when it is from
\* 75 to 90 (both ends included), poor when it is below 75, unknown when the
\* rate is null, which is when pings = 0.
C1_Classification ==
    response.op = "status" =>
        \A c \in DOMAIN response.rows :
            LET r == response.rows[c]
                rate == r.success_rate
            IN  /\ r.status \in Labels
                /\ r.status = "good" <=> (~rate.isnull /\ rate.num > 90 * rate.den)
                /\ r.status = "fair" <=>
                      (~rate.isnull /\ rate.num >= 75 * rate.den
                                    /\ rate.num <= 90 * rate.den)
                /\ r.status = "poor" <=> (~rate.isnull /\ rate.num < 75 * rate.den)
                /\ r.status = "unknown" <=> rate.isnull
                /\ rate.isnull <=> r.pings = 0
                /\ \A d \in DOMAIN response.rows :
                      SameRate(rate, response.rows[d].success_rate)
                          => response.rows[d].status = r.status

\* status() has answered with a check at exactly 90 (9 of its 10 pings are
\* successes), labelled fair.
C1_Witness ==
    /\ response.op = "status"
    /\ \E c \in DOMAIN response.rows :
          /\ response.rows[c].pings = 10
          /\ response.rows[c].successes = 9
          /\ response.rows[c].status = "fair"

\* C2: in the answer of status(), success_rate is successes * 100 / pings and
\* lies in [0, 100] when pings > 0, and is null when pings = 0; a check with
\* no result at all has a null success_rate and the label unknown.
C2_SuccessRate ==
    response.op = "status" =>
        \A c \in DOMAIN response.rows :
            LET r == response.rows[c]
                rate == r.success_rate
            IN  /\ r.pings > 0 =>
                      /\ ~rate.isnull
                      /\ rate.num * r.pings = r.successes * 100 * rate.den
                      /\ 0 <= rate.num
                      /\ rate.num <= 100 * rate.den
                /\ r.pings = 0 => rate.isnull
                /\ ResultsOf(c) = {} => rate.isnull /\ r.status = "unknown"

\* status() has answered for a check without any result and for a check with
\* results in the window.
C2_Witness ==
    /\ response.op = "status"
    /\ \E c, d \in DOMAIN response.rows :
          /\ ResultsOf(c) = {}
          /\ response.rows[c].success_rate.isnull
          /\ response.rows[d].pings > 0
          /\ response.rows[d].successes > 0
          /\ response.rows[d].successes < response.rows[d].pings

\* The stored results of check c dated at or after start and, with closed,
\* not after now.
InWindow(c, start, closed) ==
    {x \in DOMAIN results :
        /\ x.domain_check = c
        /\ x.checked_on >= start
        /\ closed => x.checked_on <= now}

\* C3: in the answer of status(), pings is the number of the check's own
\* results dated at or after now - cutoff, whatever their status code, and
\* successes the number of those whose status code is in 200..299 (a null
\* status code is a ping and not a success); 10 such results, 9 of them 200
\* and 1 null, give pings 10, successes 9, a rate of 90 and the label fair.
C3_Counts ==
    response.op = "status" =>
        \A c \in DOMAIN response.rows :
            LET r == response.rows[c]
                window == InWindow(c, now - response.cutoff, FALSE)
                n200 == SumCopies({x \in window : x.status_code = 200})
                nNull == SumCopies({x \in window : x.status_code = NULL})
            IN  /\ r.pings = SumCopies(window)
                /\ r.successes =
                      SumCopies({x \in window : IsSuccessCode(x.status_code)})
                /\ (SumCopies(window) = 10 /\ n200 = 9 /\ nNull = 1) =>
                      /\ r.pings = 10
                      /\ r.successes = 9
                      /\ ~r.success_rate.isnull
                      /\ r.success_rate.num = 90 * r.success_rate.den
                      /\ r.status = "fair"

\* status() has answered for a check with 9 results of status 200 and 1 of
\* null status in the window and one result from before the window, while
\* the other check has results too.
C3_Witness ==
    /\ response.op = "status"
    /\ \E c, d \in DOMAIN response.rows :
          LET start == now - response.cutoff
              window == InWindow(c, start, FALSE)
          IN  /\ c # d
              /\ ResultsOf(d) # {}
              /\ \E x \in ResultsOf(c) : x.checked_on < start
              /\ SumCopies({x \in window : x.status_code = 200}) = 9
              /\ SumCopies({x \in window : x.status_code = NULL}) = 1
              /\ response.rows[c].pings = 10
              /\ response.rows[c].status = "fair"

\* C4: the window of status() is closed on both sides: pings and successes
\* count exactly the check's results with now - cutoff <= checked_on <= now.
C4_ClosedWindow ==
    response.op = "status" =>
        \A c \in DOMAIN response.rows :
            LET r == response.rows[c]
                window == InWindow(c, now - response.cutoff, TRUE)
            IN  /\ r.pings = SumCopies(window)
                /\ r.successes =
                      SumCopies({x \in window : IsSuccessCode(x.status_code)})

\* C5: stale(cutoff) selects a check exactly when it has no result or every
\* one of its results is dated strictly before now - cutoff.
C5_Stale ==
    response.op = "stale" =>
        \A c \in DOMAIN checks :
            /\ c \in response.ids <=>
                  \/ ResultsOf(c) = {}
                  \/ \A x \in ResultsOf(c) : x.checked_on < now - response.cutoff
            /\ ResultsOf(c) = {} => c \in response.ids

\* stale() has answered with one check selected for its old results, while
\* the other, whose latest result is dated exactly now - cutoff, is not.
C5_Witness ==
    /\ response.op = "stale"
    /\ \E c, d \in DOMAIN checks :
          /\ c \in response.ids
          /\ ResultsOf(c) # {}
          /\ d \notin response.ids
          /\ \E x \in ResultsOf(d) : x.checked_on = now - response.cutoff
          /\ \A x \in ResultsOf(d) : x.checked_on <= now - response.cutoff

\* What status(), stale() or active() returns in the current state, for the
\* cutoff of the last call.
Recomputed ==
    CASE response.op = "status" ->
            [NoResponse EXCEPT !.op = "status", !.cutoff = response.cutoff,
                               !.rows = status(response.cutoff)]
      [] response.op = "stale" ->
            [NoResponse EXCEPT !.op = "stale", !.cutoff = response.cutoff,
                               !.ids = stale(response.cutoff)]
      [] response.op = "active" ->
            [NoResponse EXCEPT !.op = "active", !.ids = active]
      [] OTHER -> response

\* C6: a call of status(), stale() or active() leaves every check and every
\* stored result as it was, and what it returned is what a second evaluation
\* on the same results, at the same time and with the same cutoff returns.
C6_ReadOnly ==
    /\ [][response'.op \in {"status", "stale", "active"} =>
              checks' = checks /\ results' = results /\ clock' = clock]_vars
    /\ [](response.op \in {"status", "stale", "active"} => response = Recomputed)

\* status() has answered over a full table that holds a result inside its
\* window and a result older than it.
C6_Witness ==
    /\ response.op = "status"
    /\ BagCardinality(results) = MaxResults
    /\ \E c \in DOMAIN response.rows : response.rows[c].pings = 1
    /\ \E x \in DOMAIN results : x.checked_on < now - response.cutoff

\* C7: the url of a check is its protocol, then "://", then its domain, then
\* its path, and nothing else: nothing is put between the parts or taken
\* from them.
C7_Url ==
    response.op = "url" =>
        \A c \in response.ids :
            LET u == response.url
                p == checks[c].protocol
                d == checks[c].domain
                q == checks[c].path
            IN  /\ Len(u) = Len(p) + 3 + Len(d) + Len(q)
                /\ SubSeq(u, 1, Len(p)) = p
                /\ SubSeq(u, Len(p) + 1, Len(p) + 3) = "://"
                /\ SubSeq(u, Len(p) + 4, Len(p) + 3 + Len(d)) = d
                /\ SubSeq(u, Len(p) + 4 + Len(d), Len(u)) = q
                /\ (p = "https" /\ d = "example.com" /\ q = "/health")
                      => u = "https://example.com/health"

\* url has been read on the check https, example.com, /health.
C7_Witness ==
    /\ response.op = "url"
    /\ response.url = "https://example.com/health"
    /\ \E c \in response.ids :
          /\ checks[c].protocol = "https"
          /\ checks[c].domain = "example.com"
          /\ checks[c].path = "/health"

NoFutureResult == \A x \in DOMAIN results : x.checked_on <= now

\* C9: when no result is dated after now, stale() and status() with the same
\* cutoff at the same time agree: a check is selected by stale() exactly when
\* status() gives it pings = 0, which is when it is labelled unknown; a
\* stale check is never good, fair or poor.
C9_StaleIffNoPings ==
    /\ (response.op = "status" /\ NoFutureResult) =>
          \A c \in DOMAIN response.rows :
              /\ c \in stale(response.cutoff) <=> response.rows[c].pings = 0
              /\ response.rows[c].pings = 0 <=> response.rows[c].status = "unknown"
              /\ c \in stale(response.cutoff)
                    => response.rows[c].status \notin {"good", "fair", "poor"}
    /\ (response.op = "stale" /\ NoFutureResult) =>
          \A c \in DOMAIN checks :
              /\ c \in response.ids <=> status(response.cutoff)[c].pings = 0
              /\ c \notin response.ids => status(response.cutoff)[c].pings >= 1

\* status() has answered, no result being dated after now, for a stale check
\* that has results and for a check whose only result is dated exactly
\* now - cutoff.
C9_Witness ==
    /\ response.op = "status"
    /\ NoFutureResult
    /\ \E c, d \in DOMAIN response.rows :
          /\ ResultsOf(c) # {}
          /\ c \in stale(response.cutoff)
          /\ response.rows[c].status = "unknown"
          /\ d \notin stale(response.cutoff)
          /\ \A x \in ResultsOf(d) : x.checked_on = now - response.cutoff
          /\ response.rows[d].pings = 1

\* C10: the last_check of status() is the latest checked_on among all the
\* results of the check, inside the window or not, and is null exactly when
\* the check has no result.
C10_LastCheck ==
    response.op = "status" =>
        \A c \in DOMAIN response.rows :
            LET last == response.rows[c].last_check
            IN  /\ last = NULL <=> ResultsOf(c) = {}
                /\ last # NULL =>
                      /\ \E x \in ResultsOf(c) : x.checked_on = last
                      /\ \A x \in ResultsOf(c) : x.checked_on <= last

\* status() has answered for a check whose results are all dated before the
\* window: last_check is not null, pings is 0 and the label is unknown.
C10_Witness ==
    /\ response.op = "status"
    /\ \E c \in DOMAIN response.rows :
          /\ ResultsOf(c) # {}
          /\ response.rows[c].last_check # NULL
          /\ response.rows[c].last_check < now - response.cutoff
          /\ response.rows[c].pings = 0
          /\ response.rows[c].status = "unknown"

====
